---- MODULE Spec2Model ----
(***************************************************************************)
(* Model of the TIS portfolio dashboard's two remote boundaries:           *)
(*   - utils/ai.py         : the Gemini model/SDK fallback chain           *)
(*   - utils/notion_db.py  : the Notion persistence client (the variant    *)
(*                           app.py imports), its retry variant under      *)
(*                           version/, and the local JSON store of         *)
(*                           utils/data.py                                 *)
(* Strings the code only tests by substring are modelled as the set of     *)
(* the tested keywords they contain.                                       *)
(***************************************************************************)
EXTENDS Integers, Sequences, FiniteSets, TLC

VARIABLES
    \* ---- utils/ai.py : one invocation of get_gemini_analysis ----
    ai_pc,          \* position inside get_gemini_analysis
    api_key,        \* value of GEMINI_API_KEY, a sequence of text pieces
    new_installed,  \* whether `from google import genai` succeeds
    old_installed,  \* whether `import google.generativeai` succeeds
    model_idx,      \* index into CANDIDATE_MODELS of the running for-loop
    last_err,       \* last_err of the running _call_*_sdk
    new_sdk_err,    \* new_sdk_err of get_gemini_analysis
    old_sdk_err,    \* old_sdk_err of get_gemini_analysis
    calls,          \* history: every generate_content request issued
    ai_result,      \* what get_gemini_analysis returned (or raised)
    \* ---- the persistence clients ----
    variant,        \* "main": utils/notion_db.py, "retry": version/.../notion_db.py,
                    \* "local": the JSON store of utils/data.py
    notion_env,     \* NOTION_API_KEY, NOTION_PORTFOLIO_DB_ID, NOTION_SCRAP_DB_ID
    pages,          \* the remote store: every page of both databases; a page's
                    \* id is its position
    local_db,       \* portfolio_db.json: [assets, scraps]
    next_scrap_id,  \* stands for the md5 of title+ticker+now of add_scrap
    pc,             \* per client: the request its running operation issues next
    op,             \* per client: the running (or last) operation and its arguments
    attempt,        \* per client: `attempt` of the running _request_with_retry
    last_exc,       \* per client: `last_exc` of the running _request_with_retry
    sent,           \* per client, history: HTTP attempts made by the running call
    last,           \* per client, history: the last HTTP attempt of the operation
                    \* and the number of pages the operation has created
    result,         \* per client: what the operation returned (or raised)
    \* ---- utils/data.py : one call of get_portfolio_summary ----
    s_pc,           \* position: "idle", "loop", "returned" or "raised"
    s_assets,       \* the `assets` argument
    s_quotes,       \* what yfinance answers for the holding at each position
    usd_krw,        \* get_usd_krw_rate()
    s_idx,          \* holdings the for-loop has been through
    s_rows,         \* `rows`
    s_exc,          \* the exception that escaped, "" if none
    dash,           \* the totals of the dashboard (app.py)
    prompt,         \* the totals of the report prompt (ai.py, _build_prompt)
    \* ---- utils/data.py : normalize_crypto_ticker applied twice ----
    nt_pc,          \* "idle", "start", "once" or "twice"
    nt_x,           \* a ticker
    nt_once,        \* normalize_crypto_ticker(nt_x)
    nt_twice,       \* normalize_crypto_ticker(nt_once)
    \* ---- utils/data.py : the market-data lookups ----
    lookup,         \* what the provider answers, and what get_usd_krw_rate,
                    \* get_jpy_krw_rate and get_stock_info returned
    \* ---- app.py : one session of the page over st.cache_data ----
    app             \* the clock, the store, the cache and the last read

aiVars == <<ai_pc, api_key, new_installed, old_installed, model_idx,
            last_err, new_sdk_err, old_sdk_err, calls, ai_result>>

storeVars == <<variant, notion_env, pages, local_db, next_scrap_id>>

clientVars == <<pc, op, attempt, last_exc, sent, last, result>>

sumVars == <<s_pc, s_assets, s_quotes, usd_krw, s_idx, s_rows, s_exc, dash, prompt>>

ntVars == <<nt_pc, nt_x, nt_once, nt_twice>>

lkVars == <<lookup>>

appVars == <<app>>

pureVars == <<sumVars, ntVars, lkVars, appVars>>

vars == <<aiVars, storeVars, clientVars, pureVars>>

(***************************************************************************)
(* utils/ai.py                                                             *)
(***************************************************************************)

CANDIDATE_MODELS ==
    << "gemini-2.5-flash", "gemini-2.0-flash-lite", "gemini-2.0-flash",
       "gemini-1.5-pro", "gemini-pro" >>

FALLBACK_SIGNALS ==
    { "not found", "404", "quota", "429", "resource_exhausted",
      "invalid argument", "model" }

\* The keywords (lower-cased) that str(e) of each failure contains.
ErrKinds == { "not_found", "quota", "invalid_key", "network" }

ErrText(kind) ==
    CASE kind = "not_found"   -> { "404", "not found" }
      [] kind = "quota"       -> { "429", "quota", "resource_exhausted" }
      [] kind = "invalid_key" -> { "api key not valid", "api_key_invalid" }
      [] kind = "network"     -> {}

should_fallback(err) == \E s \in FALLBACK_SIGNALS : s \in err

\* for model_name in CANDIDATE_MODELS: the model requested at loop position i
CandidateReversed(i) == CANDIDATE_MODELS[Len(CANDIDATE_MODELS) + 1 - i]

\* A loop that requested the first candidate in every round.
CandidateFirst(i) == CANDIDATE_MODELS[1]

Candidate(i) == CANDIDATE_MODELS[i]

\* RuntimeError(f"모든 모델 할당량 초과 또는 사용 불가.\n마지막 오류: {last_err}")
AllFailedMessage(err) == err

\* "google-genai 미설치" / "google-generativeai 미설치"
NotInstalledMessage == {}

\* os.getenv("GEMINI_API_KEY", "").strip()
RECURSIVE LStrip(_)
LStrip(s) == IF s # <<>> /\ Head(s) = " " THEN LStrip(Tail(s)) ELSE s

RECURSIVE RStrip(_)
RStrip(s) ==
    IF s # <<>> /\ s[Len(s)] = " " THEN RStrip(SubSeq(s, 1, Len(s) - 1)) ELSE s

Strip(s) == RStrip(LStrip(s))

\* not api_key or api_key.startswith("your_")
KeyMissing(key) ==
    IF Strip(key) = <<>> THEN TRUE ELSE Head(Strip(key)) = "your_"

ApiKeys == { <<>>, <<" ">>, <<"your_", "key">>, <<"AIza", "key">> }

NoResult == [kind |-> "none", model |-> "", sdk |-> ""]

Returned(kind) == [kind |-> kind, model |-> "", sdk |-> ""]

\* The message selection at the end of get_gemini_analysis.
Diagnostic(combined) ==
    IF "quota" \in combined \/ "429" \in combined
       \/ "resource_exhausted" \in combined
    THEN "quota_exhausted"
    ELSE IF "api_key_invalid" \in combined \/ "api key not valid" \in combined
    THEN "invalid_key"
    ELSE "connection_failed"

AIStart ==
    /\ ai_pc = "start"
    /\ api_key \in ApiKeys
    /\ new_installed \in BOOLEAN
    /\ old_installed \in BOOLEAN
    /\ model_idx = 0
    /\ last_err = {}
    /\ new_sdk_err = {}
    /\ old_sdk_err = {}
    /\ calls = <<>>
    /\ ai_result = NoResult

\* lines 156-158: the key is absent or a placeholder
AI_NotConfigured ==
    /\ ai_pc = "start"
    /\ KeyMissing(api_key)
    /\ ai_pc' = "done"
    /\ ai_result' = Returned("not_configured")
    /\ UNCHANGED <<api_key, new_installed, old_installed, model_idx, last_err,
                   new_sdk_err, old_sdk_err, calls, storeVars, clientVars, pureVars>>

\* lines 163-170: `from google import genai`, then enter _call_new_sdk
AI_ImportNew ==
    /\ ai_pc = "start"
    /\ ~KeyMissing(api_key)
    /\ IF new_installed
       THEN /\ ai_pc' = "new"
            /\ model_idx' = 1
            /\ last_err' = {}
            /\ UNCHANGED new_sdk_err
       ELSE /\ ai_pc' = "import_old"
            /\ new_sdk_err' = NotInstalledMessage
            /\ UNCHANGED <<model_idx, last_err>>
    /\ UNCHANGED <<api_key, new_installed, old_installed, old_sdk_err, calls,
                   ai_result, storeVars, clientVars, pureVars>>

\* `except Exception as e` around _call_new_sdk / _call_old_sdk (lines 167,
\* 177): every exception type the chain raises derives from Exception.
ExceptionTypes == { "APIError", "RuntimeError" }

ExceptExceptionOnlyRuntimeError(exc_type) == exc_type = "RuntimeError"

ExceptException(exc_type) == exc_type \in ExceptionTypes

\* The chain of sdk raised exc_type with message msg into get_gemini_analysis.
ChainRaised(sdk, exc_type, msg, after) ==
    IF ExceptException(exc_type)
    THEN /\ ai_pc' = after
         /\ UNCHANGED ai_result
         /\ IF sdk = "new"
            THEN new_sdk_err' = msg /\ UNCHANGED old_sdk_err
            ELSE old_sdk_err' = msg /\ UNCHANGED new_sdk_err
    ELSE /\ ai_pc' = "done"
         /\ ai_result' = Returned("raised")
         /\ UNCHANGED <<new_sdk_err, old_sdk_err>>

\* One iteration of the for-loop of _call_new_sdk / _call_old_sdk (sdk is
\* "new" or "old"): the request, and what its outcome does to the chain and
\* to the try/except of get_gemini_analysis around the chain.
ChainStep(sdk, outcome, after) ==
    /\ calls' = Append(calls, [sdk |-> sdk, model |-> Candidate(model_idx),
                               outcome |-> outcome])
    /\ IF outcome = "ok"
       THEN \* return response.text
            /\ ai_pc' = "done"
            /\ ai_result' = [kind |-> "text", model |-> Candidate(model_idx),
                             sdk |-> sdk]
            /\ UNCHANGED <<model_idx, last_err, new_sdk_err, old_sdk_err>>
       ELSE /\ last_err' = ErrText(outcome)
            /\ IF should_fallback(ErrText(outcome))
               THEN IF model_idx < Len(CANDIDATE_MODELS)
                    THEN \* continue
                         /\ model_idx' = model_idx + 1
                         /\ UNCHANGED <<ai_pc, ai_result, new_sdk_err, old_sdk_err>>
                    ELSE \* the loop is exhausted: raise RuntimeError(...)
                         /\ UNCHANGED model_idx
                         /\ ChainRaised(sdk, "RuntimeError",
                                        AllFailedMessage(ErrText(outcome)), after)
               ELSE \* raise
                    /\ UNCHANGED model_idx
                    /\ ChainRaised(sdk, "APIError", ErrText(outcome), after)
    /\ UNCHANGED <<api_key, new_installed, old_installed, storeVars, clientVars, pureVars>>

\* _call_new_sdk, lines 45-62, under lines 165-168
AI_NewRequest ==
    /\ ai_pc = "new"
    /\ \E outcome \in {"ok"} \cup ErrKinds : ChainStep("new", outcome, "import_old")

\* lines 173-180: `import google.generativeai`, then enter _call_old_sdk
AI_ImportOld ==
    /\ ai_pc = "import_old"
    /\ IF old_installed
       THEN /\ ai_pc' = "old"
            /\ model_idx' = 1
            /\ last_err' = {}
            /\ UNCHANGED old_sdk_err
       ELSE /\ ai_pc' = "diagnose"
            /\ old_sdk_err' = NotInstalledMessage
            /\ UNCHANGED <<model_idx, last_err>>
    /\ UNCHANGED <<api_key, new_installed, old_installed, new_sdk_err, calls,
                   ai_result, storeVars, clientVars, pureVars>>

\* _call_old_sdk, lines 71-85, under lines 175-178
AI_OldRequest ==
    /\ ai_pc = "old"
    /\ \E outcome \in {"ok"} \cup ErrKinds : ChainStep("old", outcome, "diagnose")

\* lines 183-208: combined = (new_sdk_err + old_sdk_err).lower()
AI_Diagnose ==
    /\ ai_pc = "diagnose"
    /\ ai_pc' = "done"
    /\ ai_result' = Returned(Diagnostic(new_sdk_err \cup old_sdk_err))
    /\ UNCHANGED <<api_key, new_installed, old_installed, model_idx, last_err,
                   new_sdk_err, old_sdk_err, calls, storeVars, clientVars, pureVars>>

NextAI ==
    \/ AI_NotConfigured
    \/ AI_ImportNew
    \/ AI_NewRequest
    \/ AI_ImportOld
    \/ AI_OldRequest
    \/ AI_Diagnose

(***************************************************************************)
(* The persistence clients: utils/notion_db.py ("main"), its retry variant *)
(* version/.../notion_db.py ("retry") and the JSON store of utils/data.py  *)
(* ("local").  Text is a sequence of pieces, so that upper(), strip(),     *)
(* startswith() and endswith() are computed and not assumed.               *)
(***************************************************************************)

AllClients == {1, 2}

MaxPages == 2

\* scraps ever added to the local store in one run
MaxScrapIds == 3

\* _request_with_retry(method, url, max_retry: int = 3, **kwargs)
max_retry == 3

\* json={"page_size": 100}
PAGE_SIZE == 100

Min(a, b) == IF a < b THEN a ELSE b

\* str.upper(), piece by piece
UpperPiece(p) ==
    CASE p = "tsla" -> "TSLA"
      [] p = "btc"  -> "BTC"
      [] p = "-usd" -> "-USD"
      [] OTHER      -> p

Upper(t) == [i \in 1..Len(t) |-> UpperPiece(t[i])]

\* The tickers typed into the add form (app.py strips them and refuses "").
NotionTickers == { <<"btc">>, <<"BTC">>, <<"BTC", "-USD">> }

LocalTickers == { <<"TSLA">>, <<"tsla">>, <<"btc">>, <<"BTC", "-usd">> }

Links == { "", "https://a" }

\* The scraps saved to Notion all carry a link.
NotionLinks == { "https://a" }

\* new values of an update: (quantity, avg_price)
Updates == { [quantity |-> 2, avg_price |-> 20] }

\* quantity and avg_price typed into the add form
Added == [quantity |-> 1, avg_price |-> 10]

(***************************************************************************)
(* Configuration: _is_configured                                           *)
(***************************************************************************)

GoodEnv == [key |-> <<"ntn_", "token">>, portfolio |-> <<"db-p">>, scrap |-> <<"db-s">>]

NotionEnvs ==
    { GoodEnv,
      [GoodEnv EXCEPT !.key = <<>>],
      [GoodEnv EXCEPT !.key = <<"your_", "token">>],
      [GoodEnv EXCEPT !.portfolio = <<"your_", "id">>],
      [GoodEnv EXCEPT !.scrap = <<>>] }

StartsWith(s, prefix) == IF s = <<>> THEN FALSE ELSE Head(s) = prefix

\* main: _get_secret (no strip); retry: os.getenv(...).strip()
EnvValue(v, raw) == IF v = "retry" THEN Strip(raw) ELSE raw

\* A guard that looked at the API key only.
is_configured_key_only(v, env, db_type) ==
    LET key == EnvValue(v, env.key)
    IN  ~(key = <<>> \/ StartsWith(key, "your_"))

is_configured(v, env, db_type) ==
    LET key   == EnvValue(v, env.key)
        db_id == EnvValue(v, IF db_type = "portfolio" THEN env.portfolio ELSE env.scrap)
    IN  IF key = <<>> \/ StartsWith(key, "your_")
           \/ (v = "retry" /\ StartsWith(key, "secret_your"))
        THEN FALSE
        ELSE db_id # <<>> /\ ~StartsWith(db_id, "your_")

(***************************************************************************)
(* The remote store, as seen through the Notion API                        *)
(***************************************************************************)

AssetPage(ticker, quantity, avg_price) ==
    [db |-> "portfolio", ticker |-> ticker, quantity |-> quantity,
     avg_price |-> avg_price, link |-> "", archived |-> FALSE]

ScrapPage(link) ==
    [db |-> "scrap", ticker |-> <<>>, quantity |-> 0, avg_price |-> 0,
     link |-> link, archived |-> FALSE]

\* POST /databases/{id}/query: the database's pages that are not archived,
\* at most page_size of them; load_assets skips a page without a ticker.
QueryRows(ps, db) ==
    LET rows == SelectSeq([i \in 1..Len(ps) |->
                              [page_id |-> i, ticker |-> ps[i].ticker,
                               db |-> ps[i].db, archived |-> ps[i].archived]],
                          LAMBDA r : r.db = db /\ ~r.archived)
    IN  SubSeq(rows, 1, Min(Len(rows), PAGE_SIZE))

ListedAssets(ps) ==
    SelectSeq(QueryRows(ps, "portfolio"), LAMBDA r : r.ticker # <<>>)

\* A client whose every patch carried properties.
RequestOfPropsAlways(p, o) ==
    CASE p = "list"   -> [kind |-> "query", page_id |-> 0]
      [] p = "create" -> [kind |-> "create", page_id |-> 0]
      [] p = "patch"  -> [kind |-> "patch_props", page_id |-> o.page_id]

\* The request an operation sends at position p (pc): what the server is asked.
RequestOf(p, o) ==
    CASE p = "list"   -> [kind |-> "query", page_id |-> 0]
      [] p = "create" -> [kind |-> "create", page_id |-> 0]
      [] p = "patch"  -> [kind |-> IF o.name = "update_asset" THEN "patch_props"
                                   ELSE "patch_archive",
                          page_id |-> o.page_id]

NewPage(o) ==
    IF o.name = "add_asset"
    THEN AssetPage(Upper(o.ticker), o.quantity, o.avg_price)
    ELSE ScrapPage(o.link)

\* A store that refused a second page with the same title (Notion does not).
CreatePageUnique(ps, page) ==
    IF \E i \in 1..Len(ps) :
          ps[i].db = page.db /\ ~ps[i].archived /\ ps[i].ticker = page.ticker
    THEN ps
    ELSE Append(ps, page)

\* POST /pages: the store creates a page, whatever pages it already holds.
CreatePage(ps, page) == Append(ps, page)

\* What the store does when it carries a request out.
ServerApply(ps, req, o) ==
    CASE req.kind = "query"  -> ps
      [] req.kind = "create" -> CreatePage(ps, NewPage(o))
      [] req.kind = "patch_props" ->
            [ps EXCEPT ![req.page_id].quantity = o.quantity,
                       ![req.page_id].avg_price = o.avg_price]
      [] req.kind = "patch_archive" ->
            [ps EXCEPT ![req.page_id].archived = TRUE]

\* Outcomes of one HTTP attempt: a response (200, another status, 429) or an
\* exception of requests (Timeout, ConnectionError).
Responses == { "ok200", "err", "s429" }

Exceptions == { "timeout", "connerr" }

Outcomes == Responses \cup Exceptions

\* Whether the store can answer req with outcome, having carried it out
\* (applied) or not: a 200 means carried out, another status means not, and
\* a request that timed out or lost its connection may have been carried out.
OutcomePossible(ps, req, outcome, applied) ==
    LET valid == CASE req.kind = "query"  -> TRUE
                   [] req.kind = "create" -> Len(ps) < MaxPages
                   [] OTHER               -> req.page_id \in 1..Len(ps)
    IN  CASE outcome = "ok200"       -> valid /\ applied
          [] outcome \in Exceptions  -> applied => (valid /\ req.kind # "query")
          [] OTHER                   -> ~applied

(***************************************************************************)
(* _request_with_retry (retry variant); the main variant calls requests    *)
(* once                                                                    *)
(***************************************************************************)

ExcType(outcome) == IF outcome = "timeout" THEN "Timeout" ELSE "ConnectionError"

\* A loop that also went round again after any other error status.
RetryableWithErr(outcome) == outcome \in {"s429", "timeout", "connerr", "err"}

\* The outcomes after which the for-loop goes round again: the 429 branch
\* (continue) and the two except clauses.
Retryable(outcome) == outcome \in {"s429", "timeout", "connerr"}

\* range(max_retry + 1)
LastRoundOffByOne(a) == a >= max_retry

\* for attempt in range(max_retry): whether `attempt` was the last round
LastRound(a) == a + 1 >= max_retry

\* One round of the loop: a is `attempt`, le is `last_exc`, outcome what
\* the HTTP attempt did.  kind "return": r is returned; "retry": the loop goes
\* on; "raise": exc is raised.
CallOutcome(v, a, le, outcome) ==
    LET le2 == IF outcome \in Exceptions THEN ExcType(outcome) ELSE le
    IN  IF v = "main"
        THEN IF outcome \in Responses
             THEN [kind |-> "return", resp |-> outcome, exc |-> "",
                   attempt |-> a, last_exc |-> le]
             ELSE [kind |-> "raise", resp |-> "", exc |-> ExcType(outcome),
                   attempt |-> a, last_exc |-> le]
        ELSE IF ~Retryable(outcome)
             THEN [kind |-> "return", resp |-> outcome, exc |-> "",
                   attempt |-> a, last_exc |-> le2]
             ELSE IF ~LastRound(a)
                  THEN [kind |-> "retry", resp |-> "", exc |-> "",
                        attempt |-> a + 1, last_exc |-> le2]
                  ELSE \* raise last_exc or RuntimeError(...)
                       [kind |-> "raise", resp |-> "",
                        exc |-> IF le2 # "" THEN le2 ELSE "RuntimeError",
                        attempt |-> a, last_exc |-> le2]

(***************************************************************************)
(* The handlers around the requests                                        *)
(***************************************************************************)

NoOp == [name |-> "none", ticker |-> <<>>, page_id |-> 0, quantity |-> 0,
         avg_price |-> 0, link |-> ""]

NoAttempt == [kind |-> "none", outcome |-> "none", applied |-> FALSE, created |-> 0]

NoneYet == [ok |-> FALSE, msg |-> "none", exc |-> ""]

Ret(ok, msg) == [ok |-> ok, msg |-> msg, exc |-> ""]

\* `except Exception` of every handler: what requests and
\* _request_with_retry raise derives from Exception.
NotionExceptionTypes == { "Timeout", "ConnectionError", "RuntimeError" }

NotionExcept(exc) == exc \in NotionExceptionTypes

\* load_assets: (assets, err).  The main variant returns a bare list, [] on
\* any failure; the retry variant pairs the list with an error message.
load_assets(v, call, listed) ==
    IF call.kind = "return"
    THEN IF call.resp = "ok200"
         THEN [assets |-> listed, err |-> "", raised |-> ""]
         ELSE [assets |-> <<>>, raised |-> "",
               err |-> IF v = "retry" THEN "api_error" ELSE ""]
    ELSE IF ~NotionExcept(call.exc)
    THEN [assets |-> <<>>, err |-> "", raised |-> call.exc]
    ELSE [assets |-> <<>>, raised |-> "",
          err |-> IF v = "main" THEN ""
                  ELSE IF call.exc = "Timeout" THEN "timeout"
                  ELSE IF call.exc = "ConnectionError" THEN "connection"
                  ELSE "unexpected"]

\* a["ticker"] == ticker: the comparison without upper()
HasTickerExact(assets, ticker) ==
    \E i \in 1..Len(assets) : assets[i].ticker = ticker

\* a["ticker"].upper() == ticker.upper() for some a in existing
HasTicker(assets, ticker) ==
    \E i \in 1..Len(assets) : Upper(assets[i].ticker) = Upper(ticker)

\* The duplicate check without the `if err` guard of the retry variant.
AfterDuplicateCheckNoErr(v, ticker, la) ==
    IF la.raised # ""
    THEN [pc |-> "idle", result |-> [ok |-> FALSE, msg |-> "raised", exc |-> la.raised]]
    ELSE IF HasTicker(la.assets, ticker)
    THEN [pc |-> "idle", result |-> Ret(FALSE, "duplicate")]
    ELSE [pc |-> "create", result |-> NoneYet]

\* add_asset_notion between load_assets and the create request:
\* [pc, result] with pc = "create" when the create request comes next.
AfterDuplicateCheck(v, ticker, la) ==
    IF la.raised # ""
    THEN [pc |-> "idle", result |-> [ok |-> FALSE, msg |-> "raised", exc |-> la.raised]]
    ELSE IF v = "retry" /\ la.err # ""
    THEN [pc |-> "idle", result |-> Ret(FALSE, "duplicate_check_failed")]
    ELSE IF HasTicker(la.assets, ticker)
    THEN [pc |-> "idle", result |-> Ret(FALSE, "duplicate")]
    ELSE [pc |-> "create", result |-> NoneYet]

\* A handler that took any response for a success.
WriteResultOkOnAnyResponse(call) ==
    IF call.kind = "return" THEN Ret(TRUE, "done")
    ELSE [ok |-> FALSE, msg |-> "exception", exc |-> call.exc]

\* The try/except around a create or patch request of every operation.
WriteResult(call) ==
    IF call.kind = "return"
    THEN IF call.resp = "ok200" THEN Ret(TRUE, "done") ELSE Ret(FALSE, "notion_error")
    ELSE IF NotionExcept(call.exc)
    THEN [ok |-> FALSE, msg |-> "exception", exc |-> call.exc]
    ELSE [ok |-> FALSE, msg |-> "raised", exc |-> call.exc]

\* What an operation returns when _is_configured fails: (False, message),
\* but load_assets / load_scraps of the main variant return a bare [].
ListOps == { "load_assets", "load_scraps" }

NotConfigured(v, name) ==
    IF name \in ListOps /\ v = "main"
    THEN Ret(FALSE, "empty_list")
    ELSE Ret(FALSE, "not_configured")

\* load_assets / load_scraps called on their own: the main variant returns
\* the bare list (no flag), the retry variant (list, err).
ListResult(v, la) ==
    IF la.raised # ""
    THEN [ok |-> FALSE, msg |-> "raised", exc |-> la.raised]
    ELSE IF la.err # ""
    THEN Ret(FALSE, "list_error")
    ELSE Ret(v = "retry", IF la.assets = <<>> THEN "empty_list" ELSE "list")

InitClients ==
    /\ pc = [c \in AllClients |-> "idle"]
    /\ op = [c \in AllClients |-> NoOp]
    /\ attempt = [c \in AllClients |-> 0]
    /\ last_exc = [c \in AllClients |-> ""]
    /\ sent = [c \in AllClients |-> 0]
    /\ last = [c \in AllClients |-> NoAttempt]
    /\ result = [c \in AllClients |-> NoneYet]

\* The store a run starts from: empty, or one holding added earlier.
SeedStores == { <<>>, << AssetPage(<<"BTC">>, 1, 10) >> }

InitStore ==
    /\ local_db = [assets |-> <<>>, scraps |-> <<>>]
    /\ next_scrap_id = 1

\* An operation begins: the _is_configured guard, then its first request.
\* The page ids app.py passes come from a loaded list, so they name pages of
\* the right database (a page archived since is still one).
Begin(c, o, db_type, first) ==
    /\ pc[c] = "idle"
    /\ variant \in {"main", "retry"}
    /\ op' = [op EXCEPT ![c] = o]
    /\ attempt' = [attempt EXCEPT ![c] = 0]
    /\ last_exc' = [last_exc EXCEPT ![c] = ""]
    /\ sent' = [sent EXCEPT ![c] = 0]
    /\ last' = [last EXCEPT ![c] = NoAttempt]
    /\ IF is_configured(variant, notion_env, db_type)
       THEN /\ pc' = [pc EXCEPT ![c] = first]
            /\ result' = [result EXCEPT ![c] = NoneYet]
       ELSE /\ pc' = pc
            /\ result' = [result EXCEPT ![c] = NotConfigured(variant, o.name)]
    /\ UNCHANGED <<storeVars, aiVars, pureVars>>

add_asset_notion(c) ==
    /\ Len(pages) < MaxPages
    /\ \E t \in NotionTickers :
          Begin(c, [NoOp EXCEPT !.name = "add_asset", !.ticker = t,
                                !.quantity = Added.quantity,
                                !.avg_price = Added.avg_price],
                "portfolio", "list")

update_asset_notion(c) ==
    \E id \in 1..Len(pages), u \in Updates :
        /\ pages[id].db = "portfolio"
        /\ Begin(c, [NoOp EXCEPT !.name = "update_asset", !.page_id = id,
                                 !.quantity = u.quantity,
                                 !.avg_price = u.avg_price],
                 "portfolio", "patch")

remove_asset_notion(c) ==
    \E id \in 1..Len(pages) :
        /\ pages[id].db = "portfolio"
        /\ Begin(c, [NoOp EXCEPT !.name = "remove_asset", !.page_id = id],
                 "portfolio", "patch")

\* load_assets() / load_scraps() called by the page itself
load_assets_op(c) ==
    /\ pc[c] = "idle"
    /\ Begin(c, [NoOp EXCEPT !.name = "load_assets"], "portfolio", "list")

load_scraps_op(c) ==
    /\ pc[c] = "idle"
    /\ Begin(c, [NoOp EXCEPT !.name = "load_scraps"], "scrap", "list")

add_scrap_notion(c) ==
    /\ Len(pages) < MaxPages
    /\ \E l \in NotionLinks :
          Begin(c, [NoOp EXCEPT !.name = "add_scrap", !.link = l],
                "scrap", "create")

delete_scrap_notion(c) ==
    \E id \in 1..Len(pages) :
        /\ pages[id].db = "scrap"
        /\ Begin(c, [NoOp EXCEPT !.name = "delete_scrap", !.page_id = id],
                 "scrap", "patch")

\* One HTTP attempt of the running operation and everything the client does
\* with its outcome before the next attempt (or the return).
HttpAttempt(c) ==
    /\ pc[c] \in {"list", "create", "patch"}
    /\ \E outcome \in Outcomes, applied \in BOOLEAN :
        LET req  == RequestOf(pc[c], op[c])
            call == CallOutcome(variant, attempt[c], last_exc[c], outcome)
            la   == load_assets(variant, call,
                                IF op[c].name = "load_scraps"
                                THEN QueryRows(pages, "scrap")
                                ELSE ListedAssets(pages))
            next == IF pc[c] = "list"
                    THEN IF op[c].name \in ListOps
                         THEN [pc |-> "idle", result |-> ListResult(variant, la)]
                         ELSE AfterDuplicateCheck(variant, op[c].ticker, la)
                    ELSE [pc |-> "idle", result |-> WriteResult(call)]
        IN  /\ OutcomePossible(pages, req, outcome, applied)
            /\ pages' = IF applied THEN ServerApply(pages, req, op[c]) ELSE pages
            \* history: `created` counts the pages this operation has made
            /\ last' = [last EXCEPT ![c] =
                  [kind |-> pc[c], outcome |-> outcome, applied |-> applied,
                   created |-> IF applied /\ pc[c] = "create"
                               THEN @.created + 1 ELSE @.created]]
            /\ IF call.kind = "retry"
               THEN /\ attempt' = [attempt EXCEPT ![c] = call.attempt]
                    /\ last_exc' = [last_exc EXCEPT ![c] = call.last_exc]
                    /\ sent' = [sent EXCEPT ![c] = @ + 1]
                    /\ UNCHANGED <<pc, result>>
               ELSE /\ pc' = [pc EXCEPT ![c] = next.pc]
                    /\ result' = [result EXCEPT ![c] = next.result]
                    /\ IF next.pc = "idle"
                       THEN /\ sent' = [sent EXCEPT ![c] = @ + 1]
                            /\ last_exc' = [last_exc EXCEPT ![c] = call.last_exc]
                            /\ UNCHANGED attempt
                       ELSE \* the create request begins a new call
                            /\ sent' = [sent EXCEPT ![c] = 0]
                            /\ last_exc' = [last_exc EXCEPT ![c] = ""]
                            /\ attempt' = [attempt EXCEPT ![c] = 0]
    /\ UNCHANGED <<variant, notion_env, local_db, next_scrap_id, op, aiVars, pureVars>>

(***************************************************************************)
(* utils/data.py: the local JSON store                                     *)
(***************************************************************************)

CRYPTO_SUFFIXES == { "-USD", "-KRW", "-USDT", "-BTC" }

CRYPTO_KEYWORDS ==
    { <<"BTC">>, <<"ETH">>, <<"XRP">>, <<"SOL">>, <<"ADA">>, <<"DOGE">>,
      <<"DOT">>, <<"MATIC">>, <<"AVAX">>, <<"LINK">>, <<"BNB">>, <<"TRX">>,
      <<"SUI">> }

EndsWithCryptoSuffix(t) ==
    IF t = <<>> THEN FALSE ELSE t[Len(t)] \in CRYPTO_SUFFIXES

\* A normalisation that appended the suffix to whatever it was given.
normalize_append_always(ticker) == Append(Upper(ticker), "-USD")

normalize_crypto_ticker(ticker) ==
    LET t == Upper(ticker)
    IN  IF ~EndsWithCryptoSuffix(t) /\ t \in CRYPTO_KEYWORDS
        THEN Append(t, "-USD")
        ELSE ticker

LocalDone(c, o, res) ==
    /\ op' = [op EXCEPT ![c] = o]
    /\ result' = [result EXCEPT ![c] = res]
    /\ UNCHANGED <<variant, notion_env, pages, pc, attempt, last_exc, sent, last,
                   aiVars, pureVars>>

\* add_asset(ticker, name, quantity, avg_price, ...)
add_asset(c) ==
    /\ variant = "local"
    /\ Len(local_db.assets) < MaxPages
    /\ \E typed \in LocalTickers :
        LET ticker == Upper(normalize_crypto_ticker(typed))
            o      == [NoOp EXCEPT !.name = "add_asset", !.ticker = typed,
                                   !.quantity = Added.quantity,
                                   !.avg_price = Added.avg_price]
        IN  IF \E i \in 1..Len(local_db.assets) :
                   Upper(local_db.assets[i].ticker) = ticker
            THEN /\ LocalDone(c, o, Ret(FALSE, "duplicate"))
                 /\ UNCHANGED <<local_db, next_scrap_id>>
            ELSE /\ local_db' = [local_db EXCEPT !.assets =
                                    Append(@, [ticker |-> ticker,
                                               quantity |-> Added.quantity,
                                               avg_price |-> Added.avg_price])]
                 /\ LocalDone(c, o, Ret(TRUE, "done"))
                 /\ UNCHANGED next_scrap_id

\* update_asset(ticker, new_qty, new_avg): returns None
update_asset(c) ==
    /\ variant = "local"
    /\ \E t \in LocalTickers, u \in Updates :
        /\ local_db' = [local_db EXCEPT !.assets =
              [i \in 1..Len(@) |->
                  IF Upper(@[i].ticker) = Upper(t)
                  THEN [@[i] EXCEPT !.quantity = u.quantity,
                                    !.avg_price = u.avg_price]
                  ELSE @[i]]]
        /\ LocalDone(c, [NoOp EXCEPT !.name = "update_asset", !.ticker = t,
                                     !.quantity = u.quantity,
                                     !.avg_price = u.avg_price],
                     Ret(TRUE, "returned_none"))
        /\ UNCHANGED next_scrap_id

\* remove_asset(ticker): returns None
remove_asset(c) ==
    /\ variant = "local"
    /\ \E t \in LocalTickers :
        /\ local_db' = [local_db EXCEPT !.assets =
              SelectSeq(@, LAMBDA a : Upper(a.ticker) # Upper(t))]
        /\ LocalDone(c, [NoOp EXCEPT !.name = "remove_asset", !.ticker = t],
                     Ret(TRUE, "returned_none"))
        /\ UNCHANGED next_scrap_id

\* A duplicate test without the `link and` guard.
AlreadyScrappedAnyLink(scraps, link) ==
    \E i \in 1..Len(scraps) : scraps[i].link = link

\* link and any(s.get("link") == link for s in db["scraps"])
AlreadyScrapped(scraps, link) ==
    link # "" /\ \E i \in 1..Len(scraps) : scraps[i].link = link

\* add_scrap(title, link, ...): returns a bare bool
add_scrap(c) ==
    /\ variant = "local"
    /\ \E l \in Links :
        LET o == [NoOp EXCEPT !.name = "add_scrap", !.link = l]
        IN  IF AlreadyScrapped(local_db.scraps, l)
            THEN /\ LocalDone(c, o, Ret(FALSE, "returned_false"))
                 /\ UNCHANGED <<local_db, next_scrap_id>>
            ELSE /\ Len(local_db.scraps) < MaxPages
                 /\ next_scrap_id <= MaxScrapIds
                 /\ local_db' = [local_db EXCEPT !.scraps =
                                    Append(@, [id |-> next_scrap_id, link |-> l])]
                 /\ next_scrap_id' = next_scrap_id + 1
                 /\ LocalDone(c, o, Ret(TRUE, "returned_true"))

\* delete_scrap(scrap_id): returns None
delete_scrap(c) ==
    /\ variant = "local"
    /\ \E id \in 1..next_scrap_id :
        /\ local_db' = [local_db EXCEPT !.scraps =
              SelectSeq(@, LAMBDA s : s.id # id)]
        /\ LocalDone(c, [NoOp EXCEPT !.name = "delete_scrap", !.page_id = id],
                     Ret(TRUE, "returned_none"))
        /\ UNCHANGED next_scrap_id

(***************************************************************************)
(* utils/data.py: get_stock_info and get_portfolio_summary.  Prices and    *)
(* amounts are counted in hundredths of the currency unit, percentages in  *)
(* hundredths of a percent, so that round(x, 2) and round(x, 0) are        *)
(* computed; quantities are whole numbers.                                 *)
(***************************************************************************)

MaxHoldings == 2

\* get_usd_krw_rate(): the last close of KRW=X, or 1350.0 when the lookup fails
FALLBACK_USD_KRW == 1350

UsdKrwRates == { FALLBACK_USD_KRW, 1400 }

\* round(): to the nearest, ties to the even neighbour; n / d with d > 0
RoundHalfEven(n, d) ==
    LET q == n \div d
        r == n % d
    IN  IF 2 * r < d THEN q
        ELSE IF 2 * r > d THEN q + 1
        ELSE IF q % 2 = 0 THEN q ELSE q + 1

\* The holding records handed to get_portfolio_summary: dicts, of which a key
\* may be missing.
Holdings ==
    { [has_ticker |-> TRUE, ticker |-> <<"AAPL">>, has_quantity |-> TRUE,
       quantity |-> 10, has_avg_price |-> TRUE, avg_price |-> 15000],
      [has_ticker |-> TRUE, ticker |-> <<"AAPL">>, has_quantity |-> TRUE,
       quantity |-> 0, has_avg_price |-> TRUE, avg_price |-> 15000],
      [has_ticker |-> TRUE, ticker |-> <<"005930", ".KS">>, has_quantity |-> TRUE,
       quantity |-> 3, has_avg_price |-> TRUE, avg_price |-> 0],
      [has_ticker |-> TRUE, ticker |-> <<"btc">>, has_quantity |-> FALSE,
       quantity |-> 0, has_avg_price |-> FALSE, avg_price |-> 0],
      [has_ticker |-> FALSE, ticker |-> <<>>, has_quantity |-> TRUE,
       quantity |-> 10, has_avg_price |-> TRUE, avg_price |-> 15000] }

\* What yfinance answers: no rows (hist.empty), an exception out of
\* stock.info or stock.history, or price rows: a last close, a change and an
\* info dict whose longName is text, missing or None.
YfAnswers ==
    { [ok |-> FALSE, raised |-> FALSE, close |-> 0, change_pct |-> 0,
       currency |-> "", long_name |-> "missing"],
      [ok |-> FALSE, raised |-> TRUE, close |-> 0, change_pct |-> 0,
       currency |-> "", long_name |-> "missing"],
      [ok |-> TRUE, raised |-> FALSE, close |-> 16500, change_pct |-> 120,
       currency |-> "USD", long_name |-> "text"],
      [ok |-> TRUE, raised |-> FALSE, close |-> 16500, change_pct |-> 120,
       currency |-> "usd", long_name |-> "missing"],
      [ok |-> TRUE, raised |-> FALSE, close |-> 1234, change_pct |-> -50,
       currency |-> "JPY", long_name |-> "text"],
      [ok |-> TRUE, raised |-> FALSE, close |-> 70000, change_pct |-> 30,
       currency |-> "KRW", long_name |-> "null"] }

\* A lookup that reported every quote as valid.
get_stock_info_always_valid(ticker, yf) ==
    [ticker |-> normalize_crypto_ticker(ticker), valid |-> TRUE,
     has_error |-> FALSE, error |-> "",
     name |-> <<"Long", " Name">>, name_is_none |-> FALSE,
     current_price |-> yf.close, change_pct |-> yf.change_pct,
     currency |-> yf.currency]

\* A lookup whose "no rows" answer carried no error field.
get_stock_info_no_error(ticker, yf) ==
    LET t == normalize_crypto_ticker(ticker)
    IN  IF yf.raised
        THEN [ticker |-> t, valid |-> FALSE, has_error |-> TRUE,
              error |-> "str(e)", name |-> <<>>, name_is_none |-> FALSE,
              current_price |-> 0, change_pct |-> 0, currency |-> ""]
        ELSE [ticker |-> t, valid |-> yf.ok, has_error |-> FALSE, error |-> "",
              name |-> IF yf.long_name = "text" THEN <<"Long", " Name">> ELSE t,
              name_is_none |-> yf.long_name = "null",
              current_price |-> yf.close, change_pct |-> yf.change_pct,
              currency |-> yf.currency]

\* get_stock_info(ticker): the dict it returns.  The keys a dict lacks are
\* blank here; has_error tells whether the dict has an "error" key.
get_stock_info(ticker, yf) ==
    LET t == normalize_crypto_ticker(ticker)
    IN  IF yf.raised                       \* except Exception as e
        THEN [ticker |-> t, valid |-> FALSE, has_error |-> TRUE,
              error |-> "str(e)", name |-> <<>>, name_is_none |-> FALSE,
              current_price |-> 0, change_pct |-> 0, currency |-> ""]
        ELSE IF ~yf.ok                     \* if hist.empty
        THEN [ticker |-> t, valid |-> FALSE, has_error |-> TRUE,
              error |-> "no data", name |-> <<>>, name_is_none |-> FALSE,
              current_price |-> 0, change_pct |-> 0, currency |-> ""]
        ELSE [ticker |-> t, valid |-> TRUE, has_error |-> FALSE, error |-> "",
              \* info.get("longName", info.get("shortName", ticker))
              name |-> IF yf.long_name = "text" THEN <<"Long", " Name">> ELSE t,
              name_is_none |-> yf.long_name = "null",
              current_price |-> yf.close, change_pct |-> yf.change_pct,
              currency |-> yf.currency]

\* A conversion that applied the rate to every currency.
RateAlwaysUsd(currency, rate) == rate

\* rate = usd_krw if currency == "USD" else 1.0
Rate(currency, rate) == IF currency = "USD" THEN rate ELSE 1

\* A percentage taken of the current value instead of the cost.
ProfitLossPctOfValue(profit_loss, cost_basis, current_value) ==
    IF current_value # 0 THEN RoundHalfEven(profit_loss * 10000, current_value) ELSE 0

\* A percentage that reported 100 where the cost is zero.
ProfitLossPctNoGuard(profit_loss, cost_basis, current_value) ==
    IF cost_basis # 0 THEN RoundHalfEven(profit_loss * 10000, cost_basis) ELSE 10000

\* profit_loss_pct = (profit_loss / cost_basis * 100) if cost_basis else 0
ProfitLossPct(profit_loss, cost_basis, current_value) ==
    IF cost_basis # 0 THEN RoundHalfEven(profit_loss * 10000, cost_basis) ELSE 0

\* One round of the for-loop of get_portfolio_summary: the row appended
\* ("row"), nothing for an invalid quote ("skip"), or the exception raised.
SummaryRound(asset, yf, rate_usd) ==
    IF ~asset.has_ticker
    THEN [kind |-> "raise", exc |-> "KeyError"]            \* asset["ticker"]
    ELSE
    LET ticker == normalize_crypto_ticker(asset.ticker)
        info   == get_stock_info(ticker, yf)
        current_price == info.current_price
        quantity  == IF asset.has_quantity THEN asset.quantity ELSE 0
        avg_price == IF asset.has_avg_price THEN asset.avg_price ELSE current_price
        currency  == info.currency
        current_value == current_price * quantity
        cost_basis    == avg_price * quantity
        profit_loss   == current_value - cost_basis
        rate          == Rate(currency, rate_usd)
    IN  IF ~info.valid THEN [kind |-> "skip", exc |-> ""]
        ELSE IF info.name_is_none
        THEN [kind |-> "raise", exc |-> "TypeError"]       \* info["name"][:22]
        ELSE [kind |-> "row", exc |-> "",
              row |-> [ticker |-> ticker, name |-> info.name,
                       price |-> current_price, currency |-> currency,
                       quantity |-> quantity, avg_price |-> avg_price,
                       value |-> current_value,
                       value_krw |-> RoundHalfEven(current_value * rate, 100),
                       pl |-> profit_loss,
                       pl_krw |-> RoundHalfEven(profit_loss * rate, 100),
                       pl_pct |-> ProfitLossPct(profit_loss, cost_basis, current_value),
                       change_pct |-> info.change_pct]]

RECURSIVE Sum(_)
Sum(s) == IF s = <<>> THEN 0 ELSE Head(s) + Sum(Tail(s))

Column(df, name) == [i \in 1..Len(df) |-> df[i][name]]

Ratio(num, den) == [num |-> num, den |-> den]

NotRun == [state |-> "not_run"]

NoTotals == [state |-> "skipped"]

\* A dashboard that showed zero totals for an empty frame.
DashboardTotalsZero(assets, df) ==
    [state |-> "computed", total_val |-> Sum(Column(df, "value_krw")),
     total_pl |-> Sum(Column(df, "pl_krw")),
     cost |-> Sum(Column(df, "value_krw")) - Sum(Column(df, "pl_krw")),
     pl_pct |-> IF Sum(Column(df, "value_krw")) - Sum(Column(df, "pl_krw")) # 0
                THEN Ratio(Sum(Column(df, "pl_krw")) * 100,
                           Sum(Column(df, "value_krw")) - Sum(Column(df, "pl_krw")))
                ELSE Ratio(0, 1),
     day_chg |-> IF df = <<>> THEN Ratio(0, 1)
                 ELSE Ratio(Sum(Column(df, "change_pct")), Len(df))]

\* app.py, dashboard: if not assets / if not df.empty
DashboardTotals(assets, df) ==
    IF assets = <<>> \/ df = <<>> THEN NoTotals
    ELSE LET total_val_krw == Sum(Column(df, "value_krw"))
             total_pl_krw  == Sum(Column(df, "pl_krw"))
             cost_krw      == total_val_krw - total_pl_krw
         IN  [state |-> "computed", total_val |-> total_val_krw,
              total_pl |-> total_pl_krw, cost |-> cost_krw,
              pl_pct |-> IF cost_krw # 0 THEN Ratio(total_pl_krw * 100, cost_krw)
                         ELSE Ratio(0, 1),
              day_chg |-> Ratio(Sum(Column(df, "change_pct")), Len(df))]

\* A prompt that took the percentage of the total value.
PromptTotalsOverValue(df) ==
    IF df = <<>> THEN NoTotals
    ELSE [state |-> "computed", total_val |-> Sum(Column(df, "value_krw")),
          total_pl |-> Sum(Column(df, "pl_krw")),
          cost |-> Sum(Column(df, "value_krw")) - Sum(Column(df, "pl_krw")),
          pl_pct |-> IF Sum(Column(df, "value_krw")) # 0
                     THEN Ratio(Sum(Column(df, "pl_krw")) * 100,
                                Sum(Column(df, "value_krw")))
                     ELSE Ratio(0, 1)]

\* _build_prompt: if portfolio_df is not None and not portfolio_df.empty
PromptTotals(df) ==
    IF df = <<>> THEN NoTotals
    ELSE LET total_value_krw == Sum(Column(df, "value_krw"))
             total_pl_krw    == Sum(Column(df, "pl_krw"))
             cost_krw        == total_value_krw - total_pl_krw
         IN  [state |-> "computed", total_val |-> total_value_krw,
              total_pl |-> total_pl_krw, cost |-> cost_krw,
              pl_pct |-> IF cost_krw # 0 THEN Ratio(total_pl_krw * 100, cost_krw)
                         ELSE Ratio(0, 1)]

\* Tickers of up to MaxPieces pieces: bare symbols in either case, crypto
\* suffixes in either case, a market suffix, other text.
MaxPieces == 2

TickerPieces == { "btc", "BTC", "-usd", "-USD", ".KS", "005930", "AAPL", "tsla" }

TickerInputs == UNION { [1..n -> TickerPieces] : n \in 0..MaxPieces }

normalize_once ==
    /\ nt_pc = "start"
    /\ nt_once' = normalize_crypto_ticker(nt_x)
    /\ nt_pc' = "once"
    /\ UNCHANGED <<nt_x, nt_twice, sumVars, lkVars, appVars,
                   aiVars, storeVars, clientVars>>

normalize_twice ==
    /\ nt_pc = "once"
    /\ nt_twice' = normalize_crypto_ticker(nt_once)
    /\ nt_pc' = "twice"
    /\ UNCHANGED <<nt_x, nt_once, sumVars, lkVars, appVars,
                   aiVars, storeVars, clientVars>>

(***************************************************************************)
(* utils/data.py: the market-data lookups get_usd_krw_rate,                *)
(* get_jpy_krw_rate and get_stock_info, each called once on what the       *)
(* provider answers.  Closes are counted in thousandths, returned rates in *)
(* hundredths.                                                             *)
(***************************************************************************)

\* What yf.Ticker(pair).history(period="2d") answers: an exception, no rows,
\* or rows with a last close.
HistAnswers ==
    { [kind |-> "raised", close |-> 0], [kind |-> "empty", close |-> 0],
      [kind |-> "rows", close |-> 1400125], [kind |-> "rows", close |-> 1350000],
      [kind |-> "rows", close |-> 150250], [kind |-> "rows", close |-> 0] }

FALLBACK_JPY_KRW == 900

Returns(v) == [kind |-> "return", exc |-> "", value |-> v]

Raises(e) == [kind |-> "raise", exc |-> e, value |-> 0]

FallsThrough == [kind |-> "end", exc |-> "", value |-> 0]

\* The try-body of get_usd_krw_rate
UsdKrwBody(hist) ==
    IF hist.kind = "raised" THEN Raises("Exception")
    ELSE IF hist.kind = "rows"                       \* if not hist.empty
    THEN Returns(RoundHalfEven(hist.close, 10))      \* round(float(close), 2)
    ELSE FallsThrough

\* round((krw_per_usd / jpy_per_usd) * 100, 2), in hundredths
JpyKrwQuotient(krw_per_usd, jpy_per_usd) ==
    LET q == (krw_per_usd * 100) \div jpy_per_usd
        r == (krw_per_usd * 100) % jpy_per_usd
    IN  q * 100 + RoundHalfEven(r * 100, jpy_per_usd)

\* The try-body of get_jpy_krw_rate
JpyKrwBody(usd_jpy, krw_usd) ==
    IF usd_jpy.kind = "raised" \/ krw_usd.kind = "raised" THEN Raises("Exception")
    ELSE IF usd_jpy.kind = "rows" /\ krw_usd.kind = "rows"
    THEN IF usd_jpy.close = 0 THEN Raises("ZeroDivisionError")
         ELSE Returns(JpyKrwQuotient(krw_usd.close, usd_jpy.close))
    ELSE FallsThrough

\* A handler that let an arithmetic error through.
BareExceptNotArithmetic(out) ==
    IF out.kind = "raise" /\ out.exc # "ZeroDivisionError" THEN FallsThrough ELSE out

\* except: pass
BareExcept(out) == IF out.kind = "raise" THEN FallsThrough ELSE out

\* try: ... except: pass; return <fallback>
RateOrFallback(out, fallback) ==
    IF out.kind = "end" THEN Returns(fallback * 100) ELSE out

get_usd_krw_rate(hist) ==
    RateOrFallback(BareExcept(UsdKrwBody(hist)), FALLBACK_USD_KRW)

get_jpy_krw_rate(usd_jpy, krw_usd) ==
    RateOrFallback(BareExcept(JpyKrwBody(usd_jpy, krw_usd)), FALLBACK_JPY_KRW)

NotCalled == [kind |-> "not_called", exc |-> "", value |-> 0]

NoInfo ==
    [ticker |-> <<>>, valid |-> FALSE, has_error |-> FALSE, error |-> "",
     name |-> <<>>, name_is_none |-> FALSE, current_price |-> 0,
     change_pct |-> 0, currency |-> ""]

NoHist == [kind |-> "empty", close |-> 0]

LkIdle ==
    lookup = [pc |-> "idle", krw_hist |-> NoHist, jpy_hist |-> NoHist,
              ticker |-> <<>>, yf |-> CHOOSE yf \in YfAnswers : ~yf.ok /\ ~yf.raised,
              done |-> {}, usd_krw |-> NotCalled, jpy_krw |-> NotCalled,
              info |-> NoInfo]

get_usd_krw_rate_call ==
    /\ lookup.pc = "ready"
    /\ "usd_krw" \notin lookup.done
    /\ lookup' = [lookup EXCEPT !.usd_krw = get_usd_krw_rate(lookup.krw_hist),
                                !.done = @ \cup {"usd_krw"}]
    /\ UNCHANGED <<sumVars, ntVars, appVars, aiVars, storeVars, clientVars>>

get_jpy_krw_rate_call ==
    /\ lookup.pc = "ready"
    /\ "jpy_krw" \notin lookup.done
    /\ lookup' = [lookup EXCEPT
                    !.jpy_krw = get_jpy_krw_rate(lookup.jpy_hist, lookup.krw_hist),
                    !.done = @ \cup {"jpy_krw"}]
    /\ UNCHANGED <<sumVars, ntVars, appVars, aiVars, storeVars, clientVars>>

get_stock_info_call ==
    /\ lookup.pc = "ready"
    /\ "info" \notin lookup.done
    /\ lookup' = [lookup EXCEPT !.info = get_stock_info(lookup.ticker, lookup.yf),
                                !.done = @ \cup {"info"}]
    /\ UNCHANGED <<sumVars, ntVars, appVars, aiVars, storeVars, clientVars>>

(***************************************************************************)
(* app.py over st.cache_data: the cached reads _cached_assets (ttl 60),    *)
(* _cached_scraps (ttl 60) and get_usd_krw_rate (ttl 600), the write       *)
(* handlers of the pages, and the clock.  The store is the one the         *)
(* handlers write through notion_db: one holding at most, and the scraps   *)
(* by id.                                                                  *)
(***************************************************************************)

MaxTicks == 2

MaxWrites == 2

\* @st.cache_data(ttl=60) of _cached_assets and _cached_scraps
TTL_LISTS == 60

\* @st.cache_data(ttl=600) of get_usd_krw_rate
TTL_FX == 600

\* Seconds that pass between two steps of the session
Elapsed == { 40, 700 }

CacheKeys == { "assets", "scraps", "usd_krw" }

Blank(key) ==
    CASE key = "assets" -> <<>>
      [] key = "scraps" -> {}
      [] OTHER          -> 0

NoEntry(key) == [present |-> FALSE, value |-> Blank(key), at |-> 0, writes |-> 0]

\* An entry kept for the lists' time-to-live whatever the function's own.
StillCachedListTtl(e, ttl, now) == e.present /\ now - e.at < TTL_LISTS

\* st.cache_data(ttl=...): an entry is served while it is younger than ttl
StillCached(e, ttl, now) == e.present /\ now - e.at < ttl

\* st.cache_data.clear(): every cached function's entries are dropped
CacheClear(cache) == [k \in CacheKeys |-> NoEntry(k)]

NoRead ==
    [called |-> FALSE, hit |-> FALSE, value |-> 0, age |-> -1,
     since_failure |-> -1, cleared |-> FALSE]

AppIdle ==
    app = [pc |-> "idle", now |-> 0, ticks |-> 0, assets |-> <<>>, scraps |-> {},
           writes |-> 0, cache |-> [k \in CacheKeys |-> NoEntry(k)],
           failed_at |-> -1, cleared |-> FALSE, read |-> NoRead]

\* A call of a cached function: the cached value while the entry is fresh,
\* else the value the function computes, which is stored.  An entry's
\* `writes` is history: the successful writes made when a list was fetched.
CachedCall(key, ttl, computed) ==
    LET e   == app.cache[key]
        hit == StillCached(e, ttl, app.now)
    IN  [hit |-> hit,
         value |-> IF hit THEN e.value ELSE computed,
         entry |-> IF hit THEN e
                   ELSE [present |-> TRUE, value |-> computed, at |-> app.now,
                         writes |-> IF key = "usd_krw" THEN 0 ELSE app.writes]]

AppOthers == UNCHANGED <<sumVars, ntVars, lkVars, aiVars, storeVars, clientVars>>

\* _cached_assets(): load_assets() answers the holdings, or [] when the
\* request fails
cached_assets ==
    /\ app.pc = "page"
    /\ \E listed \in {app.assets, <<>>} :
          app' = [app EXCEPT !.cache["assets"] =
                                 CachedCall("assets", TTL_LISTS, listed).entry]
    /\ AppOthers

\* _cached_scraps(): load_scraps() answers the scraps, or [] when the
\* request fails
cached_scraps ==
    /\ app.pc = "page"
    /\ \E listed \in {app.scraps, {}} :
          app' = [app EXCEPT !.cache["scraps"] =
                                 CachedCall("scraps", TTL_LISTS, listed).entry]
    /\ AppOthers

\* What the provider answers to the page's rate lookups
AppHistAnswers ==
    { h \in HistAnswers : h.kind = "raised" \/ (h.kind = "rows" /\ h.close = 1400125) }

\* get_usd_krw_rate() under its st.cache_data(ttl=600)
cached_usd_krw_rate ==
    /\ app.pc = "page"
    /\ \E hist \in AppHistAnswers :
          LET call   == CachedCall("usd_krw", TTL_FX, get_usd_krw_rate(hist).value)
              failed == ~call.hit /\ hist.kind # "rows"
          IN  app' = [app EXCEPT
                 !.cache["usd_krw"] = call.entry,
                 \* history: the last failed lookup, and whether the caches
                 \* were cleared since
                 !.failed_at = IF failed THEN app.now ELSE @,
                 !.cleared = IF failed THEN FALSE ELSE @,
                 \* history: what this call saw and returned
                 !.read = [called |-> TRUE, hit |-> call.hit, value |-> call.value,
                           age |-> IF app.cache["usd_krw"].present
                                   THEN app.now - app.cache["usd_krw"].at ELSE -1,
                           since_failure |-> IF app.failed_at >= 0
                                             THEN app.now - app.failed_at ELSE -1,
                           cleared |-> app.cleared]]
    /\ AppOthers

\* A write handler: the notion_db call answered (ok, msg); when ok the store
\* holds the change, and the handler clears the caches if it does so.
WriteHandler(ok, assets, scraps, clears) ==
    /\ app.pc = "page"
    /\ app.writes < MaxWrites
    /\ IF ok
       THEN app' = [app EXCEPT
               !.assets = assets, !.scraps = scraps, !.writes = @ + 1,
               !.cache = IF clears THEN CacheClear(@) ELSE @,
               !.cleared = IF clears THEN TRUE ELSE @]
       ELSE app' = app
    /\ AppOthers

\* _scrap_btn: add_scrap_notion, then st.success / st.warning
scrap_btn ==
    /\ app.pc = "page"
    /\ \E ok \in BOOLEAN :
        WriteHandler(ok, app.assets, app.scraps \cup {app.writes + 1}, FALSE)

\* The add tab: add_asset_notion; if ok: st.cache_data.clear(); st.rerun()
add_asset_handler ==
    /\ app.assets = <<>>
    /\ \E ok \in BOOLEAN :
        WriteHandler(ok, <<[ticker |-> <<"TSLA">>, quantity |-> Added.quantity]>>,
                     app.scraps, TRUE)

\* The edit tab: update_asset_notion; if ok: st.cache_data.clear(); st.rerun()
update_asset_handler ==
    /\ app.assets # <<>>
    /\ \E ok \in BOOLEAN, u \in Updates :
        WriteHandler(ok, <<[app.assets[1] EXCEPT !.quantity = u.quantity]>>,
                     app.scraps, TRUE)

\* The edit tab: remove_asset_notion; if ok: st.cache_data.clear(); st.rerun()
remove_asset_handler ==
    /\ app.assets # <<>>
    /\ \E ok \in BOOLEAN : WriteHandler(ok, <<>>, app.scraps, TRUE)

\* The scrap page: delete_scrap_notion; if ok: st.cache_data.clear(); st.rerun()
delete_scrap_handler ==
    /\ app.scraps # {}
    /\ \E ok \in BOOLEAN, id \in app.scraps :
        WriteHandler(ok, app.assets, app.scraps \ {id}, TRUE)

\* The report page: add_scrap_notion; if ok: st.cache_data.clear()
report_scrap_handler ==
    /\ app.pc = "page"
    /\ \E ok \in BOOLEAN :
        WriteHandler(ok, app.assets, app.scraps \cup {app.writes + 1}, TRUE)

\* Time passes between two steps of the session.
tick ==
    /\ app.pc = "page"
    /\ app.ticks < MaxTicks
    /\ \E d \in Elapsed :
          app' = [app EXCEPT !.now = @ + d, !.ticks = @ + 1]
    /\ AppOthers

NtIdle ==
    /\ nt_pc = "idle"
    /\ nt_x = <<>>
    /\ nt_once = <<>>
    /\ nt_twice = <<>>

SumIdle ==
    /\ s_pc = "idle"
    /\ s_assets = <<>>
    /\ s_quotes = <<>>
    /\ usd_krw = FALLBACK_USD_KRW
    /\ s_idx = 0
    /\ s_rows = <<>>
    /\ s_exc = ""
    /\ dash = NotRun
    /\ prompt = NotRun

PureIdle == SumIdle /\ NtIdle /\ LkIdle /\ AppIdle

get_portfolio_summary_round ==
    /\ s_pc = "loop"
    /\ s_idx < Len(s_assets)
    /\ LET out == SummaryRound(s_assets[s_idx + 1], s_quotes[s_idx + 1], usd_krw)
       IN  /\ s_idx' = s_idx + 1
           /\ s_rows' = IF out.kind = "row" THEN Append(s_rows, out.row) ELSE s_rows
           /\ s_pc' = IF out.kind = "raise" THEN "raised" ELSE "loop"
           /\ s_exc' = out.exc
    /\ UNCHANGED <<s_assets, s_quotes, usd_krw, dash, prompt, ntVars,
                   lkVars, appVars, aiVars, storeVars, clientVars>>

\* return pd.DataFrame(rows)
get_portfolio_summary_return ==
    /\ s_pc = "loop"
    /\ s_idx = Len(s_assets)
    /\ s_pc' = "returned"
    /\ UNCHANGED <<s_assets, s_quotes, usd_krw, s_idx, s_rows, s_exc, dash, prompt,
                   ntVars, lkVars, appVars, aiVars, storeVars, clientVars>>

dashboard_totals ==
    /\ s_pc = "returned"
    /\ dash = NotRun
    /\ dash' = DashboardTotals(s_assets, s_rows)
    /\ UNCHANGED <<s_pc, s_assets, s_quotes, usd_krw, s_idx, s_rows, s_exc, prompt,
                   ntVars, lkVars, appVars, aiVars, storeVars, clientVars>>

build_prompt ==
    /\ s_pc = "returned"
    /\ prompt = NotRun
    /\ prompt' = PromptTotals(s_rows)
    /\ UNCHANGED <<s_pc, s_assets, s_quotes, usd_krw, s_idx, s_rows, s_exc, dash,
                   ntVars, lkVars, appVars, aiVars, storeVars, clientVars>>

(***************************************************************************)
(* Specifications                                                          *)
(***************************************************************************)

\* get_gemini_analysis alone: the persistence side stays as constructed.
InitAI ==
    /\ PureIdle
    /\ AIStart
    /\ variant = "main"
    /\ notion_env = GoodEnv
    /\ pages = <<>>
    /\ InitStore
    /\ InitClients

SpecAI == InitAI /\ [][NextAI]_vars

AIIdle ==
    /\ ai_pc = "done"
    /\ api_key = <<>>
    /\ new_installed = FALSE
    /\ old_installed = FALSE
    /\ model_idx = 0
    /\ last_err = {}
    /\ new_sdk_err = {}
    /\ old_sdk_err = {}
    /\ calls = <<>>
    /\ ai_result = NoResult

\* One sequential client (the Streamlit script run) against one store.
Init ==
    /\ PureIdle
    /\ AIIdle
    /\ variant \in {"main", "retry", "local"}
    /\ notion_env \in IF variant = "local" THEN {GoodEnv} ELSE NotionEnvs
    /\ pages \in IF variant = "local" THEN {<<>>} ELSE SeedStores
    /\ InitStore
    /\ InitClients

Next ==
    \/ add_asset_notion(1)
    \/ update_asset_notion(1)
    \/ remove_asset_notion(1)
    \/ add_scrap_notion(1)
    \/ load_assets_op(1)
    \/ load_scraps_op(1)
    \/ delete_scrap_notion(1)
    \/ HttpAttempt(1)
    \/ add_asset(1)
    \/ update_asset(1)
    \/ remove_asset(1)
    \/ add_scrap(1)
    \/ delete_scrap(1)

Spec == Init /\ [][Next]_vars

\* Two clients (two browser sessions) adding holdings to the same store.
InitRace ==
    /\ PureIdle
    /\ AIIdle
    /\ variant \in {"main", "retry"}
    /\ notion_env = GoodEnv
    /\ pages = <<>>
    /\ InitStore
    /\ InitClients

NextRace ==
    \/ \E c \in AllClients : add_asset_notion(c)
    \/ \E c \in AllClients : HttpAttempt(c)

SpecRace == InitRace /\ [][NextRace]_vars

(***************************************************************************)
(* Claims about utils/ai.py, checked under SpecAI                          *)
(***************************************************************************)

\* The requests one SDK chain has issued, in the order issued.
ChainCalls(sdk) == SelectSeq(calls, LAMBDA c : c.sdk = sdk)

\* C1: within one SDK chain the candidates are requested strictly in
\* CANDIDATE_MODELS order, and a success of candidate k ends everything: it
\* is the last request issued, and the result is candidate k's text (not an
\* exception, not a diagnostic).
C1_OrderedFirstSuccess ==
    /\ \A sdk \in {"new", "old"} :
          LET ch == ChainCalls(sdk) IN
          /\ Len(ch) <= Len(CANDIDATE_MODELS)
          /\ \A i \in 1..Len(ch) : ch[i].model = CANDIDATE_MODELS[i]
    /\ \A k \in 1..Len(calls) :
          calls[k].outcome = "ok" =>
             /\ k = Len(calls)
             /\ ai_pc = "done"
             /\ ai_result = [kind |-> "text", model |-> calls[k].model,
                             sdk |-> calls[k].sdk]

\* m1 fails with a quota error, m2 succeeds: the result is m2's text.
C1_Witness ==
    /\ Len(calls) = 2
    /\ calls[1].outcome = "quota"
    /\ calls[2].outcome = "ok"
    /\ ai_result.kind = "text"
    /\ ai_result.model = CANDIDATE_MODELS[2]

\* C2: after a candidate failed with an error that is not fallback-eligible
\* no further generation request is issued, through either SDK.
C2_AbortOnOtherError ==
    \A i \in 1..Len(calls) :
        calls[i].outcome \in {"invalid_key", "network"} => i = Len(calls)

\* C3: get_gemini_analysis returns a string whatever the outcomes and the
\* installed SDKs: nothing escapes, it is never stuck before returning, and
\* when every request failed with "not found" the string is the generic
\* connection-failure diagnostic.
C3_AlwaysReturnsString ==
    /\ ai_result.kind \in {"none", "text", "not_configured", "quota_exhausted",
                            "invalid_key", "connection_failed"}
    /\ ai_pc = "done" <=> ai_result.kind # "none"
    /\ ai_pc # "done" => ENABLED NextAI
    /\ (/\ ai_pc = "done"
        /\ calls # <<>>
        /\ \A i \in 1..Len(calls) : calls[i].outcome = "not_found")
       => ai_result.kind = "connection_failed"

\* Both SDKs installed, all ten requests fail with "not found".
C3_Witness ==
    /\ ai_pc = "done"
    /\ Len(calls) = 2 * Len(CANDIDATE_MODELS)
    /\ \A i \in 1..Len(calls) : calls[i].outcome = "not_found"
    /\ ai_result.kind = "connection_failed"

\* A script run is either the report page (get_gemini_analysis, no
\* persistence operation) or a page of persistence operations.
InitReport ==
    /\ PureIdle
    /\ AIStart
    /\ variant = "report"
    /\ notion_env = GoodEnv
    /\ pages = <<>>
    /\ InitStore
    /\ InitClients

InitAll == Init \/ InitReport

NextAll == NextAI \/ Next

SpecAll == InitAll /\ [][NextAll]_vars

\* get_portfolio_summary on a holding list, then the totals of the pages.
InitValuation ==
    /\ AIIdle
    /\ variant = "report"
    /\ notion_env = GoodEnv
    /\ pages = <<>>
    /\ InitStore
    /\ InitClients
    /\ NtIdle
    /\ LkIdle
    /\ AppIdle
    /\ s_pc = "loop"
    /\ s_assets \in UNION { [1..n -> Holdings] : n \in 0..MaxHoldings }
    /\ s_quotes \in [1..Len(s_assets) -> YfAnswers]
    /\ usd_krw \in UsdKrwRates
    /\ s_idx = 0
    /\ s_rows = <<>>
    /\ s_exc = ""
    /\ dash = NotRun
    /\ prompt = NotRun

NextValuation ==
    \/ get_portfolio_summary_round
    \/ get_portfolio_summary_return
    \/ dashboard_totals
    \/ build_prompt

SpecValuation == InitValuation /\ [][NextValuation]_vars

\* normalize_crypto_ticker applied to a ticker and to its own result.
InitNormalize ==
    /\ AIIdle
    /\ variant = "report"
    /\ notion_env = GoodEnv
    /\ pages = <<>>
    /\ InitStore
    /\ InitClients
    /\ SumIdle
    /\ LkIdle
    /\ AppIdle
    /\ nt_pc = "start"
    /\ nt_x \in TickerInputs
    /\ nt_once = <<>>
    /\ nt_twice = <<>>

NextNormalize ==
    \/ normalize_once
    \/ normalize_twice

SpecNormalize == InitNormalize /\ [][NextNormalize]_vars

\* The three market-data lookups, each on any answer of the provider.
InitLookup ==
    /\ AIIdle
    /\ variant = "report"
    /\ notion_env = GoodEnv
    /\ pages = <<>>
    /\ InitStore
    /\ InitClients
    /\ SumIdle
    /\ NtIdle
    /\ AppIdle
    /\ \E kh \in HistAnswers, jh \in HistAnswers, t \in LocalTickers, yf \in YfAnswers :
          lookup = [pc |-> "ready", krw_hist |-> kh, jpy_hist |-> jh,
                    ticker |-> t, yf |-> yf, done |-> {},
                    usd_krw |-> NotCalled, jpy_krw |-> NotCalled, info |-> NoInfo]

NextLookup ==
    \/ get_usd_krw_rate_call
    \/ get_jpy_krw_rate_call
    \/ get_stock_info_call

SpecLookup == InitLookup /\ [][NextLookup]_vars

\* One session of the page: reads of the lists through their caches,
\* writes, and time.
InitApp ==
    /\ AIIdle
    /\ variant = "report"
    /\ notion_env = GoodEnv
    /\ pages = <<>>
    /\ InitStore
    /\ InitClients
    /\ SumIdle
    /\ NtIdle
    /\ LkIdle
    /\ \E held \in {<<>>, <<[ticker |-> <<"TSLA">>, quantity |-> Added.quantity]>>} :
          app = [pc |-> "page", now |-> 0, ticks |-> 0, assets |-> held,
                 scraps |-> {}, writes |-> 0,
                 cache |-> [k \in CacheKeys |-> NoEntry(k)],
                 failed_at |-> -1, cleared |-> FALSE, read |-> NoRead]

NextApp ==
    \/ cached_assets
    \/ cached_scraps
    \/ scrap_btn
    \/ add_asset_handler
    \/ update_asset_handler
    \/ remove_asset_handler
    \/ delete_scrap_handler
    \/ report_scrap_handler
    \/ tick

SpecApp == InitApp /\ [][NextApp]_vars

\* One session of the page: calls of get_usd_krw_rate through its cache,
\* writes, and time.
NextFx ==
    \/ cached_usd_krw_rate
    \/ scrap_btn
    \/ add_asset_handler
    \/ update_asset_handler
    \/ remove_asset_handler
    \/ delete_scrap_handler
    \/ report_scrap_handler
    \/ tick

SpecFx == InitApp /\ [][NextFx]_vars

(***************************************************************************)
(* Claims about the persistence clients                                    *)
(***************************************************************************)

\* The holdings of the store: the portfolio pages that are not archived.
HoldingIds(ps) == { i \in 1..Len(ps) : ps[i].db = "portfolio" /\ ~ps[i].archived }

HoldsTicker(ps, t) == \E i \in HoldingIds(ps) : Upper(ps[i].ticker) = Upper(t)

LocalHoldsTicker(db, t) ==
    \E i \in 1..Len(db.assets) : Upper(db.assets[i].ticker) = Upper(t)

\* Client c's call of kind k ends in this step (its last HTTP attempt).
CallEnds(c, k) == pc[c] = k /\ pc'[c] # k

C5_UniqueTickers ==
    variant = "main" =>
        \A i, j \in HoldingIds(pages) :
            Upper(pages[i].ticker) = Upper(pages[j].ticker) => i = j

\* C6: in the retry variant add_asset_notion reaches its create request only
\* through a list request that came back with 200, and a list request that
\* ends any other way makes it return (False, message) with the store
\* untouched and no create request sent.
C6_CreateOnlyAfterList ==
    [][ \A c \in AllClients :
          (variant = "retry" /\ op[c].name = "add_asset" /\ op'[c] = op[c]) =>
            /\ (pc'[c] = "create" /\ pc[c] # "create")
               => (pc[c] = "list" /\ last'[c].kind = "list"
                   /\ last'[c].outcome = "ok200")
            /\ (CallEnds(c, "list") /\ last'[c].outcome # "ok200")
               => /\ pc'[c] = "idle"
                  /\ result'[c] = Ret(FALSE, "duplicate_check_failed")
                  /\ pages' = pages
      ]_vars

\* The list request timed out three times: the add returns without a create.
C6_Witness ==
    /\ variant = "retry"
    /\ op[1].name = "add_asset"
    /\ pc[1] = "idle"
    /\ sent[1] = max_retry
    /\ last[1].kind = "list"
    /\ last[1].outcome = "timeout"
    /\ result[1] = Ret(FALSE, "duplicate_check_failed")

\* C7: the duplicate check and the write are not atomic.  Whenever two clients have both
\* been told ok=True for the same ticker, the store holds (at least) two
\* holdings of it: nothing between the two stops the second.
C7_BothAddsStored ==
    (/\ op[1].name = "add_asset" /\ op[2].name = "add_asset"
     /\ Upper(op[1].ticker) = Upper(op[2].ticker)
     /\ pc[1] = "idle" /\ pc[2] = "idle"
     /\ result[1].ok /\ result[2].ok)
    => Cardinality({ i \in HoldingIds(pages) :
                       Upper(pages[i].ticker) = Upper(op[1].ticker) }) >= 2

\* Retry variant (a create is only sent after a successful check): both
\* clients added btc to the empty store and both were told ok=True.
C7_Witness ==
    /\ variant = "retry"
    /\ op[1].name = "add_asset" /\ op[2].name = "add_asset"
    /\ op[1].ticker = <<"btc">> /\ op[2].ticker = <<"btc">>
    /\ pc[1] = "idle" /\ pc[2] = "idle"
    /\ result[1].ok /\ result[2].ok
    /\ Len(pages) = 2
    /\ pages[1].ticker = <<"BTC">> /\ pages[2].ticker = <<"BTC">>

\* C8: every Notion operation, in both variants and whatever the attempts
\* did, returns a pair (nothing escapes the handler), and ok is True only
\* when the last request made was answered 200.
C8_PairNeverRaises ==
    variant \in {"main", "retry"} =>
        \A c \in AllClients :
            /\ result[c].msg # "raised"
            /\ (pc[c] = "idle" /\ op[c].name # "none") => result[c].msg # "none"
            /\ result[c].ok => (pc[c] = "idle" /\ last[c].outcome = "ok200")

\* An update whose three attempts all lost the connection returns a pair.
C8_Witness ==
    /\ variant = "retry"
    /\ op[1].name = "update_asset"
    /\ pc[1] = "idle"
    /\ sent[1] = max_retry
    /\ last[1].outcome = "connerr"
    /\ result[1] = [ok |-> FALSE, msg |-> "exception", exc |-> "ConnectionError"]

\* C9: one call of _request_with_retry makes at most max_retry (3) HTTP
\* attempts; while it is still running no attempt has been answered by a
\* status other than 429, and when it is over it has either returned such a
\* response (the first one) or raised after the last round.
C9_AtMostMaxRetryAttempts ==
    variant = "retry" =>
        \A c \in AllClients :
            /\ sent[c] <= max_retry
            /\ pc[c] # "idle" => /\ sent[c] < max_retry
                                 /\ attempt[c] = sent[c]
                                 /\ sent[c] >= 1 => last[c].outcome \notin {"ok200", "err"}
            /\ (pc[c] = "idle" /\ sent[c] >= 1) =>
                  \/ last[c].outcome \in {"ok200", "err"}
                  \/ /\ sent[c] = max_retry
                     /\ ~result[c].ok
                     /\ result[c].msg \in {"exception", "duplicate_check_failed", "list_error"}

\* Three 429 answers in a row: the call raises RuntimeError after the third.
C9_Witness ==
    /\ variant = "retry"
    /\ op[1].name = "remove_asset"
    /\ pc[1] = "idle"
    /\ sent[1] = max_retry
    /\ last[1].outcome = "s429"
    /\ result[1] = [ok |-> FALSE, msg |-> "exception", exc |-> "RuntimeError"]

\* Client c makes an HTTP attempt in this step / one that is not the first
\* of its call.
AttemptStep(c) == pc[c] # "idle" /\ (sent'[c] # sent[c] \/ pc'[c] # pc[c])

FurtherAttempt(c) == AttemptStep(c) /\ sent[c] >= 1

\* C10 as stated: a further attempt follows a 429 or a connection error and
\* nothing else; in particular a timeout ends the call.
C10_RetryOnlyOn429OrConnection ==
    [][ \A c \in AllClients :
          (variant = "retry" /\ FurtherAttempt(c))
          => last[c].outcome \in {"s429", "connerr"} ]_vars

\* C10 as amended: a further attempt follows a 429, a timeout or a connection
\* error and nothing else; after one of these the call goes on while rounds
\* are left, and a response with another status ends it at once.
C10_RetryOn429TimeoutConnection ==
    [][ \A c \in AllClients :
          variant = "retry" =>
            /\ FurtherAttempt(c)
               => last[c].outcome \in {"s429", "timeout", "connerr"}
            /\ (AttemptStep(c) /\ last'[c].outcome \in {"ok200", "err"})
               => pc'[c] # pc[c]
            /\ (/\ AttemptStep(c)
                /\ last'[c].outcome \in {"s429", "timeout", "connerr"}
                /\ sent[c] + 1 < max_retry)
               => (pc'[c] = pc[c] /\ sent'[c] = sent[c] + 1)
      ]_vars

\* A second attempt was made after a timeout, and was answered 200.
C10_Witness ==
    /\ variant = "retry"
    /\ op[1].name = "update_asset"
    /\ pc[1] = "idle"
    /\ sent[1] = 2
    /\ last_exc[1] = "Timeout"
    /\ last[1].outcome = "ok200"
    /\ result[1].ok

(***************************************************************************)
(* Claims about configuration                                              *)
(***************************************************************************)

\* A credential or identifier that is absent or a placeholder.
Missing(raw) == IF raw = <<>> THEN TRUE ELSE Head(raw) = "your_"

ScrapOps == { "add_scrap", "delete_scrap", "load_scraps" }

DbIdOf(name) == IF name \in ScrapOps THEN notion_env.scrap ELSE notion_env.portfolio

\* C11: when the API key or the database id an operation needs is empty or
\* starts with "your_", the Notion operation (list, add, update, remove; of
\* holdings and of scraps; both variants) returns its not-configured result
\* and no request has been sent for it; and get_gemini_analysis with such a
\* key returns its not-configured message having requested no model.
C11_NotConfiguredNoRequest ==
    /\ variant \in {"main", "retry"} =>
        \A c \in AllClients :
            (op[c].name # "none"
             /\ (Missing(notion_env.key) \/ Missing(DbIdOf(op[c].name))))
            => /\ pc[c] = "idle"
               /\ sent[c] = 0
               /\ last[c] = NoAttempt
               /\ result[c] = IF variant = "main" /\ op[c].name \in ListOps
                              THEN Ret(FALSE, "empty_list")
                              ELSE Ret(FALSE, "not_configured")
    /\ (variant = "report" /\ Missing(api_key))
       => /\ calls = <<>>
          /\ ai_pc \in {"start", "done"}
          /\ ai_pc = "done" => ai_result = Returned("not_configured")

\* The portfolio database id is a placeholder: removing the holding of the
\* store returns the not-configured pair and sends nothing.
C11_Witness ==
    /\ variant = "main"
    /\ ~Missing(notion_env.key)
    /\ Missing(notion_env.portfolio)
    /\ op[1].name = "remove_asset"
    /\ result[1] = Ret(FALSE, "not_configured")
    /\ last[1] = NoAttempt
    /\ Len(pages) = 1 /\ ~pages[1].archived

(***************************************************************************)
(* Claims about removal                                                    *)
(***************************************************************************)

\* C12: remove_asset_notion and delete_scrap_notion only ever send a patch
\* for the page id they were given; whatever its outcome the store keeps
\* every page (nothing is deleted), every other page is as it was, and the
\* page itself differs at most in its archived flag, which is then true.
C12_SoftDeleteOnly ==
    [][ \A c \in AllClients :
          (op[c].name \in {"remove_asset", "delete_scrap"} /\ op'[c] = op[c]
           /\ AttemptStep(c))
          => /\ pc[c] = "patch"
             /\ last'[c].kind = "patch"
             /\ Len(pages') = Len(pages)
             /\ \A i \in 1..Len(pages) :
                   IF i = op[c].page_id
                   THEN pages'[i] \in { pages[i], [pages[i] EXCEPT !.archived = TRUE] }
                   ELSE pages'[i] = pages[i]
      ]_vars

\* The second of two holdings was removed: it is archived, the first is not.
C12_Witness ==
    /\ op[1].name = "remove_asset"
    /\ op[1].page_id = 2
    /\ result[1].ok
    /\ Len(pages) = 2
    /\ pages[2].archived /\ pages[2].quantity = Added.quantity
    /\ ~pages[1].archived

(***************************************************************************)
(* Claims about the valuation                                              *)
(***************************************************************************)

\* The positions among the first n holdings whose quote is valid.
ValidPositions(n) == { i \in 1..n : s_quotes[i].ok }

\* C13: while get_portfolio_summary runs and when it returns, `rows` holds
\* exactly one row per holding gone through whose quote is valid, in input
\* order, and none for an invalid quote; at the return their number is the
\* number of holdings minus the number of invalid quotes (so [] gives []).
C13_OneRowPerValidQuote ==
    s_pc \in {"loop", "returned"} =>
        /\ Len(s_rows) = Cardinality(ValidPositions(s_idx))
        /\ \E f \in [1..Len(s_rows) -> ValidPositions(s_idx)] :
              /\ \A i, j \in 1..Len(s_rows) : i < j => f[i] < f[j]
              /\ \A i \in 1..Len(s_rows) :
                    /\ s_rows[i].ticker = normalize_crypto_ticker(s_assets[f[i]].ticker)
                    /\ s_assets[f[i]].has_quantity
                       => s_rows[i].quantity = s_assets[f[i]].quantity
        /\ s_pc = "returned" =>
              Len(s_rows) = Len(s_assets)
                            - Cardinality({ i \in 1..Len(s_assets) : ~s_quotes[i].ok })

\* Of two holdings the first has no quote: the one row is the second's.
C13_Witness ==
    /\ s_pc = "returned"
    /\ Len(s_assets) = 2
    /\ ~s_quotes[1].ok /\ s_quotes[2].ok
    /\ s_assets[1].ticker = <<"AAPL">>
    /\ Len(s_rows) = 1
    /\ s_rows[1].ticker = <<"BTC", "-USD">>

\* C14: no exception escapes get_portfolio_summary.
C14_NoExceptionEscapes == s_pc # "raised"

\* C15: a row of quantity 0 has current value 0 and profit/loss percent 0,
\* whatever the price and the average cost.
C15_ZeroQuantityRow ==
    \A i \in 1..Len(s_rows) :
        s_rows[i].quantity = 0 =>
            /\ s_rows[i].value = 0
            /\ s_rows[i].value_krw = 0
            /\ s_rows[i].pl_pct = 0

\* quantity 0 at average cost 150.00 and price 165.00
C15_Witness ==
    /\ s_pc = "returned"
    /\ \E i \in 1..Len(s_rows) :
          /\ s_rows[i].quantity = 0
          /\ s_rows[i].avg_price = 15000
          /\ s_rows[i].price = 16500
          /\ s_rows[i].pl_pct = 0

\* C16: a row of a USD quote has currentValue = price * quantity, profitLoss =
\* currentValue - averageCost * quantity, profitLossPct = profitLoss /
\* costBasis * 100 (2 decimals) and currentValueKRW = currentValue * rate
\* (whole number); quantity 10 at 150.00, priced 165.00 at rate 1350, gives
\* 1650.00, 150.00, 10.00 and 2227500.
C16_ReferenceFormulas ==
    \A i \in 1..Len(s_rows) :
        LET r == s_rows[i] IN
        r.currency = "USD" =>
            /\ r.value = r.price * r.quantity
            /\ r.pl = r.value - r.avg_price * r.quantity
            /\ r.avg_price * r.quantity # 0
               => r.pl_pct = RoundHalfEven(r.pl * 10000, r.avg_price * r.quantity)
            /\ r.value_krw = RoundHalfEven(r.value * usd_krw, 100)
            /\ (r.quantity = 10 /\ r.avg_price = 15000 /\ r.price = 16500
                /\ usd_krw = 1350)
               => (r.value = 165000 /\ r.pl = 15000 /\ r.pl_pct = 1000
                   /\ r.value_krw = 2227500)

C16_Witness ==
    /\ s_pc = "returned"
    /\ usd_krw = 1350
    /\ Len(s_rows) = 1
    /\ s_rows[1].currency = "USD"
    /\ s_rows[1].quantity = 10 /\ s_rows[1].avg_price = 15000
    /\ s_rows[1].price = 16500
    /\ s_rows[1].value_krw = 2227500

\* C17 as stated: the rate is the USD/KRW rate exactly for currency "USD",
\* and for any other currency the converted value and profit/loss equal the
\* native ones.
C17_NonUsdConvertedEqualsNative ==
    \A i \in 1..Len(s_rows) :
        LET r == s_rows[i] IN
        IF r.currency = "USD"
        THEN r.value_krw = RoundHalfEven(r.value * usd_krw, 100)
        ELSE r.value_krw * 100 = r.value /\ r.pl_krw * 100 = r.pl

\* C17 as amended: the rate is the USD/KRW rate exactly for currency "USD" and
\* 1.0 for any other, so that the converted value and profit/loss of another
\* currency are the native ones rounded to a whole number.
C17_RateOnlyForUsd ==
    \A i \in 1..Len(s_rows) :
        LET r == s_rows[i]
            rate == IF r.currency = "USD" THEN usd_krw ELSE 1
        IN  /\ r.value_krw = RoundHalfEven(r.value * rate, 100)
            /\ r.pl_krw = RoundHalfEven(r.pl * rate, 100)

\* A quote in "usd" (not "USD") is not converted: 1650.00 stays 1650.
C17_Witness ==
    /\ s_pc = "returned"
    /\ \E i \in 1..Len(s_rows) :
          /\ s_rows[i].currency = "usd"
          /\ s_rows[i].value = 165000
          /\ s_rows[i].value_krw = 1650

\* C18 as stated: the aggregate over no rows gives totals that are all zero.
C18_EmptyTotalsZero ==
    (s_pc = "returned" /\ s_rows = <<>>) =>
        /\ dash # NotRun =>
              /\ dash.state = "computed"
              /\ dash.total_val = 0 /\ dash.total_pl = 0
              /\ dash.pl_pct.num = 0 /\ dash.day_chg.num = 0
        /\ prompt # NotRun =>
              /\ prompt.state = "computed"
              /\ prompt.total_val = 0 /\ prompt.total_pl = 0
              /\ prompt.pl_pct.num = 0

\* C18 as amended: over no rows (no holding, or no valid quote) neither the
\* dashboard nor the report prompt computes the aggregate: no total is
\* produced, and nothing is raised.
C18_EmptyTotalsSkipped ==
    (s_pc = "returned" /\ s_rows = <<>>) =>
        /\ s_exc = ""
        /\ dash \in {NotRun, NoTotals}
        /\ prompt \in {NotRun, NoTotals}

\* Two holdings, neither with a quote: both pages skipped their totals.
C18_Witness ==
    /\ s_pc = "returned"
    /\ Len(s_assets) = 2
    /\ s_rows = <<>>
    /\ dash = NoTotals
    /\ prompt = NoTotals

\* C19: over rows that are not empty the totals are computed, with
\* costBasisTotal = totalValue - totalPL and totalPLPct = totalPL /
\* costBasisTotal * 100, or 0 when costBasisTotal is 0; the dashboard and the
\* report prompt get the same values.
C19_TotalsOverRows ==
    (s_pc = "returned" /\ s_rows # <<>>) =>
        /\ dash # NotRun =>
              /\ dash.state = "computed"
              /\ dash.total_val = Sum([i \in 1..Len(s_rows) |-> s_rows[i].value_krw])
              /\ dash.total_pl = Sum([i \in 1..Len(s_rows) |-> s_rows[i].pl_krw])
              /\ dash.cost = dash.total_val - dash.total_pl
              /\ dash.pl_pct = IF dash.cost = 0 THEN [num |-> 0, den |-> 1]
                               ELSE [num |-> dash.total_pl * 100, den |-> dash.cost]
        /\ (dash # NotRun /\ prompt # NotRun) =>
              /\ prompt.state = "computed"
              /\ prompt.total_val = dash.total_val
              /\ prompt.total_pl = dash.total_pl
              /\ prompt.cost = dash.cost
              /\ prompt.pl_pct = dash.pl_pct

\* Every holding was bought at average cost 0: the cost total is 0 and the
\* percentage is 0.
C19_Witness ==
    /\ s_pc = "returned"
    /\ dash # NotRun /\ prompt # NotRun
    /\ dash.state = "computed"
    /\ dash.total_val > 0
    /\ dash.cost = 0
    /\ dash.pl_pct = [num |-> 0, den |-> 1]
    /\ prompt.pl_pct = [num |-> 0, den |-> 1]

\* C20: normalize_crypto_ticker is idempotent: applied to its own result it
\* returns that result.
C20_NormalizeIdempotent ==
    nt_pc = "twice" => nt_twice = nt_once

\* "btc" becomes "BTC-USD", and "BTC-USD" stays.
C20_Witness ==
    /\ nt_pc = "twice"
    /\ nt_x = <<"btc">>
    /\ nt_once = <<"BTC", "-USD">>
    /\ nt_twice = <<"BTC", "-USD">>

(***************************************************************************)
(* Claims about the market-data lookups (utils/data.py)                    *)
(***************************************************************************)

\* C21: get_stock_info never raises: on every answer of the lookup it returns
\* a snapshot; the snapshot is invalid and carries an error field exactly
\* when the lookup returned no rows or raised, and is valid, without an
\* error field, when price rows came back.
C21_SnapshotValidIffRows ==
    "info" \in lookup.done =>
        /\ lookup.info.valid \in BOOLEAN
        /\ lookup.info.valid = (lookup.yf.ok /\ ~lookup.yf.raised)
        /\ lookup.info.has_error = ~lookup.info.valid
        /\ lookup.info.has_error => lookup.info.error # ""

C21_Witness ==
    /\ "info" \in lookup.done
    /\ lookup.yf.raised
    /\ ~lookup.info.valid
    /\ lookup.info.has_error

\* C22: get_usd_krw_rate and get_jpy_krw_rate never raise: when a rate
\* lookup raised or came back empty they return the fallback, 1350.0 and
\* 900.0, and otherwise the rate of the latest close (for JPY, of the two
\* latest closes: 100 * KRW per USD / JPY per USD, here to within 1%).
C22_RatesFallBack ==
    /\ "usd_krw" \in lookup.done =>
          /\ lookup.usd_krw.kind = "return"
          /\ lookup.krw_hist.kind # "rows" => lookup.usd_krw.value = 135000
          /\ lookup.krw_hist.kind = "rows" =>
                10 * lookup.usd_krw.value - lookup.krw_hist.close \in -5..5
    /\ "jpy_krw" \in lookup.done =>
          /\ lookup.jpy_krw.kind = "return"
          /\ (lookup.krw_hist.kind # "rows" \/ lookup.jpy_hist.kind # "rows"
               \/ lookup.jpy_hist.close = 0)
                => lookup.jpy_krw.value = 90000
          /\ (lookup.krw_hist.kind = "rows" /\ lookup.jpy_hist.kind = "rows"
               /\ lookup.jpy_hist.close > 0) =>
                LET got  == (lookup.jpy_krw.value \div 10) * (lookup.jpy_hist.close \div 100)
                    want == lookup.krw_hist.close * 10
                IN  /\ (got - want) * 100 <= want
                    /\ (want - got) * 100 <= want

C22_Witness ==
    /\ lookup.done = {"usd_krw", "jpy_krw", "info"}
    /\ lookup.krw_hist.kind = "rows"
    /\ lookup.jpy_hist.kind = "raised"
    /\ lookup.usd_krw.value = 140012
    /\ lookup.jpy_krw.value = 90000

(***************************************************************************)
(* Claims about the local store's scraps (utils/data.py)                   *)
(***************************************************************************)

SharedLink(scraps) ==
    \E i, j \in 1..Len(scraps) :
        i # j /\ scraps[i].link # "" /\ scraps[i].link = scraps[j].link

\* C23: in the local store, add_scrap with a non-empty link that a stored
\* scrap already has returns False and leaves the store unchanged; add_scrap
\* with an empty link is accepted and appends the scrap; and after every
\* add_scrap or delete_scrap no two stored scraps share a non-empty link.
C23_LocalLinksUnique ==
    [][ /\ ~SharedLink(local_db'.scraps)
        /\ (variant = "local" /\ op'[1].name = "add_scrap") =>
              LET l == op'[1].link
              IN  /\ (l # "" /\ \E i \in 1..Len(local_db.scraps) :
                                   local_db.scraps[i].link = l)
                        => (~result'[1].ok /\ local_db' = local_db)
                  /\ l = "" =>
                        /\ result'[1].ok
                        /\ Len(local_db'.scraps) = Len(local_db.scraps) + 1
                        /\ local_db'.scraps[Len(local_db'.scraps)].link = "" ]_vars

C23_Witness ==
    /\ variant = "local"
    /\ op[1].name = "add_scrap"
    /\ op[1].link # ""
    /\ ~result[1].ok
    /\ \E i \in 1..Len(local_db.scraps) : local_db.scraps[i].link = op[1].link
    /\ \E i \in 1..Len(local_db.scraps) : local_db.scraps[i].link = ""

(***************************************************************************)
(* Claims about the retry loop's effects and errors (retry variant)        *)
(***************************************************************************)

\* C24: in the retry variant one call of add_asset_notion or
\* add_scrap_notion creates at most one record in the remote store, also
\* when a create request times out or loses its connection after the store
\* applied it and the request is retried.
C24_AtMostOneRecordPerCall ==
    (variant = "retry" /\ op[1].name \in {"add_asset", "add_scrap"})
        => last[1].created <= 1

\* C25: when _request_with_retry runs out of attempts, the error it raises,
\* and so the message the operation returns, describes the final attempt:
\* after a final attempt that ended with a 429 response the reported
\* failure is not a timeout or connection error of an earlier attempt.
C25_ErrorDescribesFinalAttempt ==
    (variant = "retry" /\ pc[1] = "idle" /\ last[1].outcome = "s429")
        => result[1].exc \notin {"Timeout", "ConnectionError"}

(***************************************************************************)
(* Claims about the requests and the diagnostic of get_gemini_analysis     *)
(***************************************************************************)

\* C26 as stated: one invocation of get_gemini_analysis requests no
\* candidate model twice, whatever the failures and the installed SDKs.
C26_NoModelRequestedTwice ==
    \A i, j \in 1..Len(calls) : i # j => calls[i].model # calls[j].model

\* C26, amended: one invocation requests no candidate model twice through
\* the same SDK; a model is requested a second time only through the old
\* SDK, after the new SDK's chain failed, so at most twice in all, and at
\* most once when only one SDK is installed.
C26_AtMostOncePerSdk ==
    /\ \A i, j \in 1..Len(calls) :
          (i < j /\ calls[i].model = calls[j].model) =>
              /\ calls[i].sdk = "new"
              /\ calls[j].sdk = "old"
              /\ calls[Len(ChainCalls("new"))].outcome # "ok"
    /\ ~(new_installed /\ old_installed) => C26_NoModelRequestedTwice

C26_Witness ==
    /\ ai_pc = "done"
    /\ Len(calls) = 2 * Len(CANDIDATE_MODELS)
    /\ \A m \in 1..Len(CANDIDATE_MODELS) :
          /\ calls[m].model = CANDIDATE_MODELS[m]
          /\ calls[m].sdk = "new"
          /\ calls[Len(CANDIDATE_MODELS) + m].model = CANDIDATE_MODELS[m]
          /\ calls[Len(CANDIDATE_MODELS) + m].sdk = "old"

\* C27: the diagnostic does not depend on the order of the failures: when
\* every request failed with a fallback-eligible error, the result is the
\* quota-exhausted diagnostic if and only if at least one of the failures
\* was a quota/rate-limit error.
C27_DiagnosticOrderIndependent ==
    (/\ ai_pc = "done"
     /\ calls # <<>>
     /\ \A i \in 1..Len(calls) : calls[i].outcome \in {"not_found", "quota"})
    => (ai_result.kind = "quota_exhausted"
          <=> \E i \in 1..Len(calls) : calls[i].outcome = "quota")

(***************************************************************************)
(* Claims about the caches of the page (app.py, utils/data.py)             *)
(***************************************************************************)

\* C28: after every successful write made through the application the
\* cached holdings and scraps lists are invalidated before the next read:
\* no cached list is one that was fetched before the latest successful
\* write, so the next read fetches from the store.
C28_WritesInvalidateLists ==
    \A k \in {"assets", "scraps"} :
        app.cache[k].present => app.cache[k].writes = app.writes

\* C29 as stated: once a lookup of get_usd_krw_rate has failed, every call
\* within the following 600 seconds is served from the cache and returns
\* 1350.0, whatever the provider would answer.
C29_FallbackServedForTtl ==
    (app.read.called /\ app.read.since_failure \in 0..(TTL_FX - 1))
        => (app.read.hit /\ app.read.value = FALLBACK_USD_KRW * 100)

\* C29, amended: the cache stores whatever get_usd_krw_rate returned, the
\* fallback included: once a lookup has failed, every call within the
\* following 600 seconds returns 1350.0 without a query to the provider,
\* unless st.cache_data.clear() ran in between (a successful write through
\* the page clears every cache); a call finding an entry younger than 600
\* seconds is served from it, and a call finding no entry or one of 600
\* seconds or more queries the provider again.
C29_FallbackServedUntilCleared ==
    app.read.called =>
        /\ (app.read.since_failure \in 0..(TTL_FX - 1) /\ ~app.read.cleared)
              => (app.read.hit /\ app.read.value = FALLBACK_USD_KRW * 100)
        /\ app.read.age \in 0..(TTL_FX - 1) => app.read.hit
        /\ (app.read.age = -1 \/ app.read.age >= TTL_FX) => ~app.read.hit

\* The fallback was cached, 80 seconds passed, and the call was served 1350.0
\* from the cache.
C29_Witness ==
    /\ app.read.called
    /\ app.read.hit
    /\ app.read.since_failure = 80
    /\ app.read.value = FALLBACK_USD_KRW * 100

(***************************************************************************)
(* Claims about the holdings the summary reads from the remote store       *)
(***************************************************************************)

\* The tickers of the rows get_portfolio_summary makes of the stored
\* holdings are pairwise different.
RowTickersDistinct(ps) ==
    \A i, j \in HoldingIds(ps) :
        i # j => normalize_crypto_ticker(ps[i].ticker)
                    # normalize_crypto_ticker(ps[j].ticker)

\* C30: with holdings created through add_asset_notion by one sequential
\* client whose list requests succeed, no two rows of get_portfolio_summary
\* carry the same normalized ticker: an add whose duplicate check listed the
\* store successfully never stores a holding whose normalized ticker a stored
\* holding already has (a bare crypto symbol next to its -USD form).
C30_OneRowPerNormalizedTicker ==
    [][ (/\ variant = "main"
         /\ op[1].name = "add_asset"
         /\ pc[1] = "create"
         /\ last[1].kind = "list"
         /\ last[1].outcome = "ok200"
         /\ RowTickersDistinct(pages))
        => RowTickersDistinct(pages') ]_vars

====
